---- MODULE Spec2Model ----
(***************************************************************************)
(* Model of neuralmonkey/trainers/generic_trainer.py: the gradient         *)
(* aggregator _sum_gradients, the construction of GenericTrainer and the   *)
(* TrainExecutable step protocol.                                          *)
(*                                                                         *)
(* Tensors are one-dimensional integer vectors (non-empty sequences).      *)
(* Python's None for an optional tensor is the empty sequence.  An         *)
(* Optional[Gradients] is a sequence of length 0 (None) or 1 (the list).   *)
(* Scalar graph tensors and Python numbers are records                     *)
(* [kind, name, val, grad] with kind "tensor" or "number".                 *)
(***************************************************************************)
EXTENDS Integers, Sequences, FiniteSets, TLC

VARIABLES
    gradients_list,       \* argument of a direct _sum_gradients call
    summed,               \* its returned list, wrapped: <<>> before the call
    trainable_variables,  \* tf.trainable_variables(), in creation order
    pc,                   \* "start", "built" or "failed" (constructor raised)
    args,                 \* the constructor's arguments
    trainer,              \* the fields and locals of GenericTrainer.__init__
    exec_pc,              \* "none", "pending", "dispatched", "collected", "failed"
    get_args,             \* the arguments of the last get_executable call
    executable,           \* the fields of the TrainExecutable
    next_execute,         \* the tuple returned by next_to_execute
    results,              \* the argument of the last collect_results call
    exec_error            \* the exception raised by collect_results, or "none"

sum_vars == <<gradients_list, summed>>
build_vars == <<trainable_variables, pc, args, trainer>>
exec_vars == <<exec_pc, get_args, executable, next_execute, results, exec_error>>
vars == <<gradients_list, summed, trainable_variables, pc, args, trainer,
          exec_pc, get_args, executable, next_execute, results, exec_error>>

----------------------------------------------------------------------------
(* Bounds *)

MaxLists == 2        \* gradient lists in one direct _sum_gradients call
MaxEntries == 3      \* entries in all of those gradient lists together
MaxVars == 2         \* trainable variables in the graph
MaxObjectives == 2   \* objectives given to the constructor
MaxContexts == 2     \* session results given to collect_results

----------------------------------------------------------------------------
(* Values *)

None == <<>>

Some(x) == <<x>>

RECURSIVE SeqSum(_)
SeqSum(s) == IF s = <<>> THEN 0 ELSE Head(s) + SeqSum(Tail(s))

Abs(x) == IF x < 0 THEN -x ELSE x

\* All sequences over S of length at most n.
SeqsUpTo(S, n) == UNION {[1..k -> S] : k \in 0..n}

\* All orderings of the finite set S, as sequences without repetition.
Orderings(S) ==
    {s \in [1..Cardinality(S) -> S] : \A i, j \in DOMAIN s : s[i] = s[j] => i = j}

\* The variables a graph may hold, with the characters of their names and
\* their current values.
VarPool == <<"W", "bias", "Bias", "BIAS">>

NameChars(var) ==
    CASE var = "W"    -> <<"W">>
      [] var = "bias" -> <<"b", "i", "a", "s">>
      [] var = "Bias" -> <<"B", "i", "a", "s">>
      [] var = "BIAS" -> <<"B", "I", "A", "S">>

VarValue(var) ==
    CASE var = "W"    -> <<1, -2>>
      [] var = "bias" -> <<-3>>
      [] var = "Bias" -> <<2>>
      [] var = "BIAS" -> <<-1>>

Shape(var) == DOMAIN VarValue(var)

----------------------------------------------------------------------------
(* _sum_gradients *)

TensorAdd(a, b) == [i \in DOMAIN a |-> a[i] + b[i]]

\* A slip that keeps only the last contribution of a parameter.
SumStepOverwrite(summed_dict, entry) ==
    LET tensor == entry[1]
        var == entry[2]
    IN  IF tensor # None
        THEN IF var \notin DOMAIN summed_dict
             THEN (var :> tensor) @@ summed_dict
             ELSE [summed_dict EXCEPT ![var] = tensor]
        ELSE summed_dict

\* A slip that keeps only the first contribution of a parameter.
SumStepFirstOnly(summed_dict, entry) ==
    LET tensor == entry[1]
        var == entry[2]
    IN  IF tensor # None /\ var \notin DOMAIN summed_dict
        THEN (var :> tensor) @@ summed_dict
        ELSE summed_dict

\* The body of the inner loop: one (tensor, var) entry folded into the dict.
SumStep(summed_dict, entry) ==
    LET tensor == entry[1]
        var == entry[2]
    IN  IF tensor # None
        THEN IF var \notin DOMAIN summed_dict
             THEN (var :> tensor) @@ summed_dict
             ELSE [summed_dict EXCEPT ![var] = TensorAdd(@, tensor)]
        ELSE summed_dict

RECURSIVE SumEntries(_, _)
SumEntries(summed_dict, gradients) ==
    IF gradients = <<>>
    THEN summed_dict
    ELSE SumEntries(SumStep(summed_dict, Head(gradients)), Tail(gradients))

RECURSIVE SumLists(_, _)
SumLists(summed_dict, lists) ==
    IF lists = <<>>
    THEN summed_dict
    ELSE SumLists(SumEntries(summed_dict, Head(lists)), Tail(lists))

\* summed_dict when the loops are over.
SummedDict(lists) == SumLists(<<>>, lists)

\* summed_dict.items() iterates in an order the language leaves open.
ItemsOrders(summed_dict) == Orderings(DOMAIN summed_dict)

\* The returned list for one iteration order of the dict.
SumGradientsResult(lists, order) ==
    LET summed_dict == SummedDict(lists)
    IN  [i \in DOMAIN order |-> <<summed_dict[order[i]], order[i]>>]

\* Inputs of the direct calls: two parameters, W with two elements and bias
\* with one.
SumVars == {"W", "bias"}

SumTensors(var) ==
    IF var = "W" THEN {None, <<1, -1>>, <<0, 2>>} ELSE {None, <<3>>}

SumEntrySet == UNION {SumTensors(w) \X {w} : w \in SumVars}

\* Up to m gradient lists holding up to n entries between them.
RECURSIVE ListsWithin(_, _)
ListsWithin(m, n) ==
    IF m = 0
    THEN {<<>>}
    ELSE {<<>>} \cup
         UNION {{<<h>> \o t : t \in ListsWithin(m - 1, n - Len(h))} :
                   h \in SeqsUpTo(SumEntrySet, n)}

SumInputs == ListsWithin(MaxLists, MaxEntries)

SumGradients ==
    /\ summed = None
    /\ \E order \in ItemsOrders(SummedDict(gradients_list)) :
           summed' = Some(SumGradientsResult(gradients_list, order))
    /\ UNCHANGED <<gradients_list, build_vars, exec_vars>>

----------------------------------------------------------------------------
(* Scalar tensors of the graph, with the gradient the differentiation      *)
(* engine derives for them: grad maps each variable the tensor depends on  *)
(* to the derivative, and a variable outside its domain has gradient None. *)

Number(val) == [kind |-> "number", name |-> <<>>, val |-> val, grad |-> <<>>]

GradScale(g, k) == [v \in DOMAIN g |-> [i \in DOMAIN g[v] |-> k * g[v][i]]]

GradAdd(g, h) ==
    [v \in DOMAIN g \cup DOMAIN h |->
        IF v \in DOMAIN g /\ v \in DOMAIN h THEN TensorAdd(g[v], h[v])
        ELSE IF v \in DOMAIN g THEN g[v] ELSE h[v]]

BothNumbers(a, b) == a.kind = "number" /\ b.kind = "number"

\* a + b
Add(a, b) ==
    [kind |-> IF BothNumbers(a, b) THEN "number" ELSE "tensor",
     name |-> IF BothNumbers(a, b) THEN <<>> ELSE <<"Add">> \o a.name \o b.name,
     val |-> a.val + b.val,
     grad |-> GradAdd(a.grad, b.grad)]

\* a * b
Mul(a, b) ==
    [kind |-> IF BothNumbers(a, b) THEN "number" ELSE "tensor",
     name |-> IF BothNumbers(a, b) THEN <<>> ELSE <<"Mul">> \o a.name \o b.name,
     val |-> a.val * b.val,
     grad |-> GradAdd(GradScale(a.grad, b.val), GradScale(b.grad, a.val))]

Sign(x) == IF x > 0 THEN 1 ELSE IF x < 0 THEN -1 ELSE 0

\* abs(a)
PyAbs(a) ==
    [kind |-> a.kind,
     name |-> IF a.kind = "number" THEN <<>> ELSE <<"Abs">> \o a.name,
     val |-> Abs(a.val),
     grad |-> GradScale(a.grad, Sign(a.val))]

\* sum(seq): Python's sum starts from the int 0.
RECURSIVE PySumFrom(_, _)
PySumFrom(acc, seq) ==
    IF seq = <<>> THEN acc ELSE PySumFrom(Add(acc, Head(seq)), Tail(seq))

PySum(seq) == PySumFrom(Number(0), seq)

\* tf.reduce_sum(v ** 2) for a variable v
ReduceSumPow2(var) ==
    LET v == VarValue(var)
    IN  [kind |-> "tensor",
         name |-> <<"Sum", "Pow", var>>,
         val |-> SeqSum([i \in DOMAIN v |-> v[i] * v[i]]),
         grad |-> (var :> [i \in DOMAIN v |-> 2 * v[i]])]

\* BIAS_REGEX.findall(name) is non-empty
BiasRegexFinds(chars) ==
    \E i \in 1..(Len(chars) - 3) :
        /\ chars[i] \in {"B", "b"}
        /\ chars[i + 1] = "i"
        /\ chars[i + 2] = "a"
        /\ chars[i + 3] = "s"

MapSeq(seq, Op(_)) == [i \in DOMAIN seq |-> Op(seq[i])]

\* The list comprehension that builds `regularizable`.
Regularizable(tv) ==
    MapSeq(SelectSeq(tv, LAMBDA v : BiasRegexFinds(NameChars(v))), ReduceSumPow2)

L1Value(regularizable) == PySum(MapSeq(regularizable, PyAbs))

L2Value(regularizable) == PySum(MapSeq(regularizable, LAMBDA v : Mul(v, v)))

\* weight * value if weight > 0 else 0.0
Cost(weight, value) == IF weight > 0 THEN Mul(Number(weight), value) ELSE Number(0)

\* l != 0. : a tensor is an object that never compares equal to a float.
NotZero(l) == IF l.kind = "tensor" THEN TRUE ELSE l.val # 0

----------------------------------------------------------------------------
(* Objectives *)

\* A loss tensor of the model layer: `deps` gives its derivative for the
\* trainable variables it depends on.
LossTensor(name, val, deps) ==
    [kind |-> "tensor", name |-> <<name>>, val |-> val, grad |-> deps]

Range(seq) == {seq[i] : i \in DOMAIN seq}

\* Objective "a" leaves its gradients to the trainer; its loss depends on
\* every variable but BIAS.  Objective "b" brings its own gradient list, which
\* is not the derivative of its loss.
ObjectiveA(tv) ==
    [name |-> "a",
     decoder |-> "dec_a",
     loss |-> LossTensor("loss_a", 4,
                 [v \in Range(tv) \ {"BIAS"} |-> [i \in Shape(v) |-> i]]),
     gradients |-> None]

ObjectiveB(tv) ==
    [name |-> "b",
     decoder |-> "dec_b",
     loss |-> LossTensor("loss_b", 7,
                 [v \in Range(tv) \ {"W"} |-> [i \in Shape(v) |-> 2]]),
     gradients |-> Some([k \in DOMAIN tv |->
                     <<IF tv[k] = "bias" THEN None ELSE [i \in Shape(tv[k]) |-> 5],
                       tv[k]>>])]

ObjectivePool(tv) == {ObjectiveA(tv), ObjectiveB(tv)}

\* collect_encoders(decoder): the decoder and the encoders it reads from.
collect_encoders(decoder) ==
    IF decoder = "dec_a" THEN {"dec_a", "enc_1"} ELSE {"dec_b", "enc_1", "enc_2"}

----------------------------------------------------------------------------
(* GenericTrainer.__init__ *)

\* optimizer.compute_gradients(tensor): one pair per trainable variable.
_get_gradients(tensor, tv) ==
    [k \in DOMAIN tv |->
        <<IF tv[k] \in DOMAIN tensor.grad THEN tensor.grad[tv[k]] ELSE None, tv[k]>>]

\* A slip that differentiates every loss, precomputed gradients or not.
ObjectiveStepAlwaysDifferentiates(acc, objective, tv) ==
    [lists |-> Append(acc.lists, _get_gradients(objective.loss, tv)),
     log |-> Append(acc.log, objective.loss.name)]

\* One round of the loop over the objectives; acc.lists is partial_gradients
\* and acc.log the tensors handed to the optimizer for differentiation.
ObjectiveStep(acc, objective, tv) ==
    IF objective.gradients = None
    THEN [lists |-> Append(acc.lists, _get_gradients(objective.loss, tv)),
          log |-> Append(acc.log, objective.loss.name)]
    ELSE [lists |-> Append(acc.lists, objective.gradients[1]),
          log |-> acc.log]

RECURSIVE ObjectiveLoop(_, _, _)
ObjectiveLoop(acc, objectives, tv) ==
    IF objectives = <<>>
    THEN acc
    ELSE ObjectiveLoop(ObjectiveStep(acc, Head(objectives), tv), Tail(objectives), tv)

\* The filter of the comprehension over [l1_cost, l2_cost].
CostIsDifferentiated(l) == NotZero(l)

\* partial_gradients += [self._get_gradients(l) for l in costs if l != 0.]
RECURSIVE CostLoop(_, _, _)
CostLoop(acc, costs, tv) ==
    IF costs = <<>>
    THEN acc
    ELSE CostLoop(
             IF CostIsDifferentiated(Head(costs))
             THEN [lists |-> Append(acc.lists, _get_gradients(Head(costs), tv)),
                   log |-> Append(acc.log, Head(costs).name)]
             ELSE acc,
             Tail(costs), tv)

PartialGradients(objectives, l1_cost, l2_cost, tv) ==
    CostLoop(ObjectiveLoop([lists |-> <<>>, log |-> <<>>], objectives, tv),
             <<l1_cost, l2_cost>>, tv)

\* The value bound to the clip_norm parameter: its default is False.
ClipNormParameter(arg) == IF arg = "omitted" THEN "False" ELSE arg

\* A gradient as handed to the optimizer: the aggregated tensor t, behind a
\* tf.clip_by_norm node or as it is.
ClipByNorm(t, clip_norm) == [op |-> "clip_by_norm", t |-> t, clip_norm |-> clip_norm]

Unclipped(t) == [op |-> "identity", t |-> t, clip_norm |-> "None"]

\* if clip_norm is not None
ClipIsApplied(clip_norm) == clip_norm # "None"

ClipGradients(gradients, clip_norm) ==
    IF ClipIsApplied(clip_norm)
    THEN [k \in DOMAIN gradients |->
             <<ClipByNorm(gradients[k][1], clip_norm), gradients[k][2]>>]
    ELSE [k \in DOMAIN gradients |->
             <<Unclipped(gradients[k][1]), gradients[k][2]>>]

\* A variant of the union that starts from an empty set and so accepts no
\* arguments at all.
SetUnionFromEmpty(sets) == [error |-> "none", value |-> UNION Range(sets)]

\* set.union(*sets): the unbound method needs at least one argument.
SetUnion(sets) ==
    IF sets = <<>>
    THEN [error |-> "TypeError", value |-> {}]
    ELSE [error |-> "none", value |-> UNION Range(sets)]

MergeSummary(inputs) == [op |-> "merge_summary", inputs |-> inputs]

NoTrainer ==
    [regularizable |-> <<>>, l1_value |-> Number(0), l2_value |-> Number(0),
     l1_cost |-> Number(0), l2_cost |-> Number(0), losses |-> <<>>,
     partial_gradients |-> <<>>, differentiated |-> <<>>,
     aggregated |-> <<>>, gradients |-> <<>>, all_coders |-> {},
     train_op |-> [op |-> "none", grads_and_vars |-> <<>>],
     histogram_summaries |-> MergeSummary(<<>>),
     scalar_summaries |-> MergeSummary(<<>>),
     image_summaries |-> MergeSummary(<<>>)]

\* The object the constructor leaves behind for one iteration order of the
\* aggregator's dict.
BuiltTrainer(a, tv, order) ==
    LET regularizable == Regularizable(tv)
        l1_value == L1Value(regularizable)
        l1_cost == Cost(a.l1_weight, l1_value)
        l2_value == L2Value(regularizable)
        l2_cost == Cost(a.l2_weight, l2_value)
        partial == PartialGradients(a.objectives, l1_cost, l2_cost, tv)
        aggregated == SumGradientsResult(partial.lists, order)
        gradients == ClipGradients(aggregated, ClipNormParameter(a.clip_norm))
        coders == SetUnion(MapSeq(a.objectives, LAMBDA o : collect_encoders(o.decoder)))
    IN  [error |-> coders.error,
         object |->
            [regularizable |-> regularizable,
             l1_value |-> l1_value, l2_value |-> l2_value,
             l1_cost |-> l1_cost, l2_cost |-> l2_cost,
             losses |-> MapSeq(a.objectives, LAMBDA o : o.loss) \o <<l1_value, l2_value>>,
             partial_gradients |-> partial.lists,
             differentiated |-> partial.log,
             aggregated |-> aggregated,
             gradients |-> gradients,
             all_coders |-> coders.value,
             train_op |-> [op |-> "apply_gradients", grads_and_vars |-> gradients],
             histogram_summaries |->
                 MergeSummary(MapSeq(SelectSeq(gradients, LAMBDA g : g[1].t # None),
                                     LAMBDA g : <<"gr_", g[2]>>)),
             scalar_summaries |-> MergeSummary(<<"train_l1", "train_l2">>),
             image_summaries |-> MergeSummary(<<>>)]]

WeightSet == {0, 1}

ClipNormArgs == {"omitted", "None", "1.0"}

ConstructorArgs(tv) ==
    [objectives : SeqsUpTo(ObjectivePool(tv), MaxObjectives),
     l1_weight : WeightSet,
     l2_weight : WeightSet,
     clip_norm : ClipNormArgs]

NoArgs == [objectives |-> <<>>, l1_weight |-> 0, l2_weight |-> 0, clip_norm |-> "omitted"]

Construct ==
    /\ pc = "start"
    /\ \E a \in ConstructorArgs(trainable_variables) :
         LET partial == PartialGradients(a.objectives,
                            Cost(a.l1_weight, L1Value(Regularizable(trainable_variables))),
                            Cost(a.l2_weight, L2Value(Regularizable(trainable_variables))),
                            trainable_variables)
         IN  \E order \in ItemsOrders(SummedDict(partial.lists)) :
               LET built == BuiltTrainer(a, trainable_variables, order)
               IN  /\ args' = a
                   /\ IF built.error = "none"
                      THEN pc' = "built" /\ trainer' = built.object
                      ELSE pc' = "failed" /\ trainer' = NoTrainer
    /\ UNCHANGED <<trainable_variables, sum_vars, exec_vars>>

----------------------------------------------------------------------------
(* GenericTrainer.get_executable and TrainExecutable *)

\* A slip that hands the summaries over whatever the flag says.
SummaryArgumentAlways(summary, summaries) == Some(summary)

\* self.scalar_summaries if summaries else None
SummaryArgument(summary, summaries) == IF summaries THEN Some(summary) ELSE None

NoExecutable ==
    [all_coders |-> {}, train_op |-> NoTrainer.train_op, losses |-> <<>>,
     scalar_summaries |-> None, histogram_summaries |-> None,
     image_summaries |-> None, result |-> None]

NoGetArgs == [train |-> FALSE, summaries |-> FALSE]

GetExecutable ==
    /\ pc = "built"
    /\ \E train \in BOOLEAN, summaries \in BOOLEAN :
         /\ get_args' = [train |-> train, summaries |-> summaries]
         /\ executable' =
               [all_coders |-> trainer.all_coders,
                train_op |-> trainer.train_op,
                losses |-> trainer.losses,
                scalar_summaries |-> SummaryArgument(trainer.scalar_summaries, summaries),
                histogram_summaries |-> SummaryArgument(trainer.histogram_summaries, summaries),
                image_summaries |-> SummaryArgument(trainer.image_summaries, summaries),
                result |-> None]
    /\ exec_pc' = "pending"
    /\ next_execute' = None
    /\ results' = <<>>
    /\ exec_error' = "none"
    /\ UNCHANGED <<sum_vars, build_vars>>

\* The fetches dict built by next_to_execute.
Fetches(self) ==
    IF self.scalar_summaries # None
    THEN [train_op |-> self.train_op,
          scalar_summaries |-> self.scalar_summaries,
          histogram_summaries |-> self.histogram_summaries,
          image_summaries |-> self.image_summaries,
          losses |-> self.losses]
    ELSE [train_op |-> self.train_op,
          losses |-> self.losses]

NextToExecute ==
    /\ exec_pc = "pending"
    /\ next_execute' = Some([all_coders |-> executable.all_coders,
                             fetches |-> Fetches(executable),
                             feed_dict |-> <<>>])
    /\ exec_pc' = "dispatched"
    /\ UNCHANGED <<sum_vars, build_vars, get_args, executable, results, exec_error>>

\* What one session returns for the fetches: a value per key.  The losses of
\* a session are base, base + step, base + 2 * step, ...
SessionResult(fetches, base, step) ==
    [k \in DOMAIN fetches |->
        CASE k = "losses" ->
                 [i \in DOMAIN fetches.losses |-> base + (i - 1) * step]
          [] k = "train_op" -> None
          [] OTHER -> <<k, base, step>>]

SessionPool(fetches) ==
    {SessionResult(fetches, 1, 2), SessionResult(fetches, 2, 3)}

RECURSIVE GCD(_, _)
GCD(a, b) == IF b = 0 THEN a ELSE GCD(b, a % b)

\* A slip that answers zero when nothing was collected.
DivideOrZero(s, n) ==
    IF n = 0
    THEN [error |-> "none", num |-> 0, den |-> 1]
    ELSE LET g == GCD(Abs(s), n)
         IN  [error |-> "none", num |-> s \div g, den |-> n \div g]

\* s / n on floats: the quotient as a fraction in lowest terms.
Divide(s, n) ==
    IF n = 0
    THEN [error |-> "ZeroDivisionError", num |-> 0, den |-> 1]
    ELSE LET g == GCD(Abs(s), n)
         IN  [error |-> "none", num |-> s \div g, den |-> n \div g]

\* A slip that reads the losses of a session from the end.
LossesSumFromEnd(self, res) ==
    [i \in DOMAIN self.losses |->
        SeqSum([k \in DOMAIN res |-> res[k].losses[Len(self.losses) + 1 - i]])]

\* losses_sum after the two loops.
LossesSum(self, res) ==
    [i \in DOMAIN self.losses |->
        SeqSum([k \in DOMAIN res |-> res[k].losses[i]])]

\* The outcome of collect_results: the exception raised, if any, and the
\* value of self.result afterwards.
CollectOutcome(self, res) ==
    IF self.scalar_summaries # None /\ res = <<>>
    THEN [error |-> "IndexError", result |-> self.result]
    ELSE LET losses_sum == LossesSum(self, res)
             quotients == [i \in DOMAIN losses_sum |-> Divide(losses_sum[i], Len(res))]
         IN  IF \E i \in DOMAIN quotients : quotients[i].error # "none"
             THEN [error |-> "ZeroDivisionError", result |-> self.result]
             ELSE [error |-> "none",
                   result |-> Some(
                     [outputs |-> <<>>,
                      losses |-> [i \in DOMAIN quotients |->
                                     [num |-> quotients[i].num, den |-> quotients[i].den]],
                      scalar_summaries |->
                          IF self.scalar_summaries = None THEN None
                          ELSE Some(res[1].scalar_summaries),
                      histogram_summaries |->
                          IF self.scalar_summaries = None THEN None
                          ELSE Some(res[1].histogram_summaries),
                      image_summaries |->
                          IF self.scalar_summaries = None THEN None
                          ELSE Some(res[1].image_summaries)])]

CollectResults ==
    /\ exec_pc = "dispatched"
    /\ \E res \in SeqsUpTo(SessionPool(next_execute[1].fetches), MaxContexts) :
         LET outcome == CollectOutcome(executable, res)
         IN  /\ results' = res
             /\ exec_error' = outcome.error
             /\ executable' = [executable EXCEPT !.result = outcome.result]
             /\ exec_pc' = IF outcome.error = "none" THEN "collected" ELSE "failed"
    /\ UNCHANGED <<sum_vars, build_vars, get_args, next_execute>>

----------------------------------------------------------------------------
(* Specifications *)

\* The graphs the trainer is built in: from one to MaxVars of the pool's
\* variables, in creation order.
TrainableChoices ==
    {SelectSeq(VarPool, LAMBDA v : v \in S) :
        S \in {T \in SUBSET Range(VarPool) : Cardinality(T) \in 1..MaxVars}}

InitBuild ==
    /\ pc = "start"
    /\ args = NoArgs
    /\ trainer = NoTrainer

InitExec ==
    /\ exec_pc = "none"
    /\ get_args = NoGetArgs
    /\ executable = NoExecutable
    /\ next_execute = None
    /\ results = <<>>
    /\ exec_error = "none"

\* The trainer and its executables; no direct call of the aggregator is open.
Init ==
    /\ gradients_list = <<>>
    /\ summed = Some(<<>>)
    /\ trainable_variables \in TrainableChoices
    /\ InitBuild
    /\ InitExec

Next ==
    \/ Construct
    \/ GetExecutable
    \/ NextToExecute
    \/ CollectResults

Spec == Init /\ [][Next]_vars

\* Direct calls of the aggregator on every bounded input.
InitSum ==
    /\ gradients_list \in SumInputs
    /\ summed = None
    /\ trainable_variables = <<>>
    /\ InitBuild
    /\ InitExec

NextSum == SumGradients

SpecSum == InitSum /\ [][NextSum]_vars

----------------------------------------------------------------------------
(* Properties of the aggregator, checked under SpecSum *)

RECURSIVE Flatten(_)
Flatten(lists) == IF lists = <<>> THEN <<>> ELSE Head(lists) \o Flatten(Tail(lists))

\* The non-null tensors contributed for var, one per contributing entry.
Contributions(lists, var) ==
    SelectSeq(Flatten(lists), LAMBDA e : e[2] = var /\ e[1] # None)

\* Their elementwise sum.
ContributionSum(lists, var) ==
    LET c == Contributions(lists, var)
    IN  [i \in Shape(var) |-> SeqSum([k \in DOMAIN c |-> c[k][1][i]])]

EntriesFor(out, var) == {k \in DOMAIN out : out[k][2] = var}

\* C1: the aggregate has exactly one entry for each parameter with at least
\* one non-null gradient in the input, that entry is the sum of all the
\* parameter's non-null contributions, each counted once, and a parameter
\* with only null contributions, or none, has no entry.
C1_AggregateIsSumOfNonNull ==
    summed # None =>
        \A var \in Range(VarPool) :
            IF Contributions(gradients_list, var) # <<>>
            THEN /\ Cardinality(EntriesFor(summed[1], var)) = 1
                 /\ \A k \in EntriesFor(summed[1], var) :
                        summed[1][k][1] = ContributionSum(gradients_list, var)
            ELSE EntriesFor(summed[1], var) = {}

\* W is contributed twice with different tensors and bias only as null.
C1_Witness ==
    /\ summed # None
    /\ Len(Contributions(gradients_list, "W")) = 2
    /\ Contributions(gradients_list, "W")[1] # Contributions(gradients_list, "W")[2]
    /\ Contributions(gradients_list, "bias") = <<>>
    /\ \E e \in Range(Flatten(gradients_list)) : e[2] = "bias"

\* The returned list read as a mapping from parameter to gradient.
AsMapping(out) ==
    [var \in {out[k][2] : k \in DOMAIN out} |->
        out[CHOOSE k \in DOMAIN out : out[k][2] = var][1]]

Permuted(seq, p) == [i \in DOMAIN seq |-> seq[p[i]]]

\* Every reordering of the entries inside each list.
RECURSIVE InnerReorderings(_)
InnerReorderings(lists) ==
    IF lists = <<>>
    THEN {<<>>}
    ELSE {<<Permuted(Head(lists), q)>> \o rest :
             q \in Orderings(DOMAIN Head(lists)),
             rest \in InnerReorderings(Tail(lists))}

\* Every reordering of the lists and of the entries inside each list.
Reorderings(lists) ==
    {Permuted(inner, p) :
        p \in Orderings(DOMAIN lists), inner \in InnerReorderings(lists)}

\* C8: the aggregate of every reordering of the input has the same
\* parameters and the same gradient for each as the aggregate of the input.
C8_OrderIndependent ==
    summed # None =>
        \A other \in Reorderings(gradients_list) :
            \A order \in ItemsOrders(SummedDict(other)) :
                AsMapping(SumGradientsResult(other, order)) = AsMapping(summed[1])

\* Two different lists, each with a different non-null gradient for W.
C8_Witness ==
    /\ summed # None
    /\ Len(gradients_list) = 2
    /\ gradients_list[1] # gradients_list[2]
    /\ Contributions(<<gradients_list[1]>>, "W") # <<>>
    /\ Contributions(<<gradients_list[2]>>, "W") # <<>>
    /\ Contributions(<<gradients_list[1]>>, "W")[1] # Contributions(<<gradients_list[2]>>, "W")[1]
    /\ Cardinality(Reorderings(gradients_list)) > 1

----------------------------------------------------------------------------
(* Properties of the constructor, checked under Spec *)

Lower(c) ==
    CASE c = "B" -> "b"
      [] c = "I" -> "i"
      [] c = "A" -> "a"
      [] c = "S" -> "s"
      [] OTHER -> c

\* The name contains "bias" in some letter case.
ContainsBiasAnyCase(var) ==
    LET chars == MapSeq(NameChars(var), Lower)
    IN  \E i \in 1..(Len(chars) - 3) :
            <<chars[i], chars[i + 1], chars[i + 2], chars[i + 3]>> = <<"b", "i", "a", "s">>

\* The variables behind the tensors of `regularizable`.
RegularizedVars == {trainer.regularizable[k].name[3] : k \in DOMAIN trainer.regularizable}

\* C2: the parameters used for regularization are exactly the trainable
\* parameters whose name does not contain "bias" in any letter case.
C2_RegularizableExcludesBias ==
    pc = "built" =>
        RegularizedVars = {v \in Range(trainable_variables) : ~ContainsBiasAnyCase(v)}

\* The selected variables, one per tensor of `regularizable`.
RegularizedVarSeq == MapSeq(trainer.regularizable, LAMBDA r : r.name[3])

AbsSumOfElements(var) == SeqSum(MapSeq(VarValue(var), Abs))

SquareSumOfElements(var) == SeqSum(MapSeq(VarValue(var), LAMBDA x : x * x))

\* C3: l1_value is the sum of the absolute values of all elements of the
\* selected parameters and l2_value the sum of their squares; no selected
\* parameter gives 0 for both.
C3_RegularizationValues ==
    pc = "built" =>
        /\ trainer.l1_value.val = SeqSum(MapSeq(RegularizedVarSeq, AbsSumOfElements))
        /\ trainer.l2_value.val = SeqSum(MapSeq(RegularizedVarSeq, SquareSumOfElements))

\* C4: without a clip_norm argument the optimizer gets the aggregated
\* gradients as they are; with clip_norm set it gets each of them clipped by
\* that norm on its own, paired with its parameter.
C4_ClipIffClipNormSet ==
    pc = "built" =>
        LET applied == trainer.train_op.grads_and_vars
        IN  /\ Len(applied) = Len(trainer.aggregated)
            /\ \A k \in DOMAIN applied :
                 /\ applied[k][2] = trainer.aggregated[k][2]
                 /\ applied[k][1].t = trainer.aggregated[k][1]
                 /\ applied[k][1].op =
                        IF args.clip_norm \in {"omitted", "None"}
                        THEN "identity" ELSE "clip_by_norm"
                 /\ applied[k][1].op = "clip_by_norm" =>
                        applied[k][1].clip_norm = args.clip_norm

\* C9: construction with no objectives fails; there is no trainer object
\* with an update operation and no executable comes from it.
C9_EmptyObjectivesFail ==
    (pc # "start" /\ args.objectives = <<>>) =>
        /\ pc = "failed"
        /\ trainer = NoTrainer
        /\ exec_pc = "none"
        /\ executable = NoExecutable

\* Construction without objectives and with both penalties switched on.
C9_Witness ==
    /\ pc = "failed"
    /\ args.objectives = <<>>
    /\ args.l1_weight > 0
    /\ args.l2_weight > 0
    /\ trainable_variables # <<>>

\* The gradient lists of the objectives, as the claim describes them.
ExpectedObjectiveLists ==
    [k \in DOMAIN args.objectives |->
        IF args.objectives[k].gradients # None
        THEN args.objectives[k].gradients[1]
        ELSE _get_gradients(args.objectives[k].loss, trainable_variables)]

\* The losses the optimizer differentiates, as the claim describes them.
ExpectedDifferentiatedLosses ==
    MapSeq(SelectSeq(args.objectives, LAMBDA o : o.gradients = None),
           LAMBDA o : o.loss.name)

OnlyIf(cond, x) == IF cond THEN <<x>> ELSE <<>>

\* C10 as stated: the aggregator gets, per objective in order, the
\* precomputed list or else the derivative of the loss, then the derivative
\* of the L1 cost iff l1_weight > 0 and of the L2 cost iff l2_weight > 0.
C10_PartialGradientsByWeight ==
    pc = "built" =>
        /\ trainer.partial_gradients =
              ExpectedObjectiveLists
              \o OnlyIf(args.l1_weight > 0,
                        _get_gradients(trainer.l1_cost, trainable_variables))
              \o OnlyIf(args.l2_weight > 0,
                        _get_gradients(trainer.l2_cost, trainable_variables))
        /\ trainer.differentiated =
              ExpectedDifferentiatedLosses
              \o OnlyIf(args.l1_weight > 0, trainer.l1_cost.name)
              \o OnlyIf(args.l2_weight > 0, trainer.l2_cost.name)

\* C10 amended: the derivative of a cost is passed iff its weight is > 0 and
\* at least one parameter was selected for regularization.
C10_PartialGradientsByWeightAndSelection ==
    pc = "built" =>
        /\ trainer.partial_gradients =
              ExpectedObjectiveLists
              \o OnlyIf(args.l1_weight > 0 /\ trainer.regularizable # <<>>,
                        _get_gradients(trainer.l1_cost, trainable_variables))
              \o OnlyIf(args.l2_weight > 0 /\ trainer.regularizable # <<>>,
                        _get_gradients(trainer.l2_cost, trainable_variables))
        /\ trainer.differentiated =
              ExpectedDifferentiatedLosses
              \o OnlyIf(args.l1_weight > 0 /\ trainer.regularizable # <<>>,
                        trainer.l1_cost.name)
              \o OnlyIf(args.l2_weight > 0 /\ trainer.regularizable # <<>>,
                        trainer.l2_cost.name)

\* An objective with precomputed gradients after one without, the L1 penalty
\* on and the L2 penalty off, with a parameter selected for regularization.
C10_Witness ==
    /\ pc = "built"
    /\ Len(args.objectives) = 2
    /\ args.objectives[1].gradients = None
    /\ args.objectives[2].gradients # None
    /\ args.l1_weight > 0
    /\ args.l2_weight = 0
    /\ trainer.regularizable # <<>>
    /\ Len(trainer.partial_gradients) = 3

----------------------------------------------------------------------------
(* Properties of the executable, checked under Spec *)

SummaryKeys == {"scalar_summaries", "histogram_summaries", "image_summaries"}

\* C7: the fetch plan always holds the update operation and the losses, for
\* both values of train; it holds the three summary slots iff summaries was
\* true, and none of them otherwise; the extra inputs are empty.
C7_FetchPlan ==
    next_execute # None =>
        LET fetches == next_execute[1].fetches
        IN  /\ "train_op" \in DOMAIN fetches
            /\ fetches.train_op = trainer.train_op
            /\ "losses" \in DOMAIN fetches
            /\ fetches.losses = trainer.losses
            /\ IF get_args.summaries
               THEN SummaryKeys \subseteq DOMAIN fetches
               ELSE SummaryKeys \cap DOMAIN fetches = {}
            /\ DOMAIN next_execute[1].feed_dict = {}

\* A plan of an executable built with train and summaries both false.
C7_Witness ==
    /\ next_execute # None
    /\ ~get_args.summaries
    /\ ~get_args.train
    /\ DOMAIN next_execute[1].fetches = {"train_op", "losses"}

\* C5: for a non-empty list of session results the stored losses have the
\* length of the executable's losses and each, times the number of
\* sessions, is the sum of that slot over all sessions.
C5_LossesAreAveraged ==
    (exec_pc \in {"collected", "failed"} /\ results # <<>>) =>
        /\ exec_pc = "collected"
        /\ executable.result # None
        /\ LET avg_losses == executable.result[1].losses
           IN  /\ Len(avg_losses) = Len(executable.losses)
               /\ \A i \in DOMAIN avg_losses :
                    avg_losses[i].num * Len(results) =
                        avg_losses[i].den
                        * SeqSum([k \in DOMAIN results |-> results[k].losses[i]])

\* Two sessions with losses 1, 3, ... and 2, 5, ... average to 1.5, 4, ...
C5_Witness ==
    /\ exec_pc = "collected"
    /\ Len(results) = 2
    /\ SubSeq(results[1].losses, 1, 2) = <<1, 3>>
    /\ SubSeq(results[2].losses, 1, 2) = <<2, 5>>
    /\ executable.result[1].losses[1] = [num |-> 3, den |-> 2]
    /\ executable.result[1].losses[2] = [num |-> 4, den |-> 1]

\* C6: collect_results on an empty list raises, with or without summaries,
\* and leaves the result unset.
C6_EmptyResultsFail ==
    (exec_pc \in {"collected", "failed"} /\ results = <<>>) =>
        /\ exec_pc = "failed"
        /\ exec_error # "none"
        /\ executable.result = None

\* The empty list given to an executable built without summaries.
C6_Witness ==
    /\ exec_pc = "failed"
    /\ results = <<>>
    /\ ~get_args.summaries
    /\ exec_error = "ZeroDivisionError"

====
